---- MODULE Spec2Model ----
(***************************************************************************)
(* A model of locationsharinglib/locationsharinglib.py: the module-level   *)
(* TTL cache STATE_CACHE, Service._get_data behind the cachetools `cached` *)
(* decorator, the positional decoding of the parsed envelope into Person   *)
(* records, and the query methods of Service.                              *)
(***************************************************************************)
EXTENDS Integers, Sequences, FiniteSets, TLC

(***************************************************************************)
(* JSON values as json.loads produces them.  Every value is a record       *)
(* [t, n, v]: t is the Python type, n the number (or character code), v    *)
(* the elements of a list, the characters of a str, the keys of a dict.    *)
(***************************************************************************)
Null == [t |-> "null", n |-> 0, v |-> <<>>]

Num(k) == [t |-> "num", n |-> k, v |-> <<>>]

Chr(c) == [t |-> "chr", n |-> c, v |-> <<>>]

Str(cs) == [t |-> "str", n |-> 0, v |-> cs]

List(xs) == [t |-> "list", n |-> 0, v |-> xs]

Dict(ks) == [t |-> "dict", n |-> 0, v |-> ks]

\* The outcome of evaluating a Python expression: the exception raised
\* ("none" when it returns) and the value returned.
Ok(x) == [exc |-> "none", val |-> x]

Raise(e) == [exc |-> e, val |-> Null]

\* x[i] for a literal index i >= 0: list and str index by position (a str
\* yields a one-character str), a dict looks the integer up as a key (JSON
\* keys are strings, so it is never there), anything else is not subscriptable.
Index(x, i) ==
    CASE x.t = "list" -> IF i < Len(x.v) THEN Ok(x.v[i + 1]) ELSE Raise("IndexError")
      [] x.t = "str"  -> IF i < Len(x.v) THEN Ok(Str(<<x.v[i + 1]>>)) ELSE Raise("IndexError")
      [] x.t = "dict" -> Raise("KeyError")
      [] OTHER        -> Raise("TypeError")

\* x[p1][p2]...[pn], left to right; the first exception ends the evaluation.
RECURSIVE At(_, _)
At(x, path) ==
    IF path = <<>> THEN Ok(x)
    ELSE LET r == Index(x, Head(path))
         IN  IF r.exc # "none" THEN r ELSE At(r.val, Tail(path))

\* for info in x: the items a for loop visits, or the TypeError of iter(x).
Iterate(x) ==
    CASE x.t = "list" -> Ok(x)
      [] x.t = "str"  -> Ok(List([i \in 1..Len(x.v) |-> Str(<<x.v[i]>>)]))
      [] x.t = "dict" -> Ok(List(x.v))
      [] OTHER        -> Raise("TypeError")

(***************************************************************************)
(* Person: the fields Person.__init__ sets to None and _populate fills.    *)
(***************************************************************************)
NoPerson ==
    [id |-> Null, picture_url |-> Null, full_name |-> Null, nickname |-> Null,
     latitude |-> Null, longitude |-> Null, timestamp |-> Null, accuracy |-> Null,
     address |-> Null, country_code |-> Null, charging |-> Null,
     battery_level |-> Null]

\* The positions _populate reads before the battery block, in its order.
RequiredPaths ==
    << <<6, 0>>, <<6, 1>>, <<6, 2>>, <<6, 3>>, <<1, 1, 2>>, <<1, 1, 1>>,
       <<1, 2>>, <<1, 3>>, <<1, 4>>, <<1, 6>> >>

\* The exception of the first path of `paths` that cannot be read, or "none".
RECURSIVE FirstFailure(_, _)
FirstFailure(data, paths) ==
    IF paths = <<>> THEN "none"
    ELSE LET r == At(data, Head(paths))
         IN  IF r.exc # "none" THEN r.exc ELSE FirstFailure(data, Tail(paths))

\* The inner try of _populate: data[13][k], with `except TypeError` giving None.
\* Any other exception leaves the inner try.
Optional(data, k) ==
    LET r == At(data, <<13, k>>)
    IN  IF r.exc = "TypeError" THEN Ok(Null) ELSE r

\* Person(data): _populate's outer try maps IndexError and TypeError to
\* InvalidData; any other exception (KeyError) leaves the constructor as is.
Populate(data) ==
    LET req      == FirstFailure(data, RequiredPaths)
        charging == Optional(data, 0)
        battery  == Optional(data, 1)
        raised   == IF req # "none" THEN req
                    ELSE IF charging.exc # "none" THEN charging.exc
                    ELSE battery.exc
    IN  IF raised = "none"
        THEN [exc |-> "none",
              person |->
                [id            |-> At(data, <<6, 0>>).val,
                 picture_url   |-> At(data, <<6, 1>>).val,
                 full_name     |-> At(data, <<6, 2>>).val,
                 nickname      |-> At(data, <<6, 3>>).val,
                 latitude      |-> At(data, <<1, 1, 2>>).val,
                 longitude     |-> At(data, <<1, 1, 1>>).val,
                 timestamp     |-> At(data, <<1, 2>>).val,
                 accuracy      |-> At(data, <<1, 3>>).val,
                 address       |-> At(data, <<1, 4>>).val,
                 country_code  |-> At(data, <<1, 6>>).val,
                 charging      |-> charging.val,
                 battery_level |-> battery.val]]
        ELSE [exc |-> IF raised \in {"IndexError", "TypeError"}
                      THEN "InvalidData" ELSE raised,
              person |-> NoPerson]

\* True and False.
Bool(b) == [t |-> "bool", n |-> IF b THEN 1 ELSE 0, v |-> <<>>]

\* bool(x), the truth value `or` and `if` test: None, 0, False and the empty
\* str, list and dict are false.
Truthy(x) ==
    CASE x.t = "null" -> FALSE
      [] x.t \in {"num", "bool"} -> x.n # 0
      [] OTHER -> x.v # <<>>

\* Person.id without its fallback: the identifier as _populate stored it.
Person_id_stored(person) == person.id

\* The property Person.id: self._id or self.full_name.
Person_id(person) ==
    IF Truthy(person.id) THEN person.id ELSE person.full_name

\* Person.charging without bool(): the value as _populate stored it.
Person_charging_stored(person) == person.charging

\* The property Person.charging: bool(self._charging).
Person_charging(person) == Bool(Truthy(person.charging))

\* What the caller reads from a Person: its properties.  id and charging
\* are computed, the others return the field.
Properties(person) ==
    [person EXCEPT !.id = Person_id(person), !.charging = Person_charging(person)]

(***************************************************************************)
(* The decoding done by the query methods, as functions of the envelope    *)
(* `output` that _get_data returned.  Each yields the exception that       *)
(* leaves the method ("none" when it returns) and the returned value.      *)
(***************************************************************************)
\* The loop of get_shared_people over the items: an InvalidData drops the
\* item, any other exception of Person(info) leaves the loop.
RECURSIVE DecodeItems(_, _)
DecodeItems(items, people) ==
    IF items = <<>> THEN [exc |-> "none", people |-> people]
    ELSE LET p == Populate(Head(items))
         IN  CASE p.exc = "none" ->
                    DecodeItems(Tail(items), Append(people, p.person))
               [] p.exc = "InvalidData" -> DecodeItems(Tail(items), people)
               [] OTHER -> [exc |-> p.exc, people |-> <<>>]

get_shared_people(output) ==
    LET first == Index(output, 0)
        items == IF first.exc = "none" THEN Iterate(first.val) ELSE first
    IN  IF items.exc # "none"
        THEN [exc |-> items.exc, people |-> <<>>]
        ELSE DecodeItems(items.val.v, <<>>)

\* The list get_authenticated_person hands to Person: the email at 0, the
\* account's location block at 1, the identity block at 6, None elsewhere.
AuthenticatedData(email, block) ==
    List(<<email, block, Null, Null, Null, Null,
           List(<<Null, Null, email, email>>),
           Null, Null, Null, Null, Null, Null, Null>>)

\* get_authenticated_person with `except InvalidData` alone: the IndexError
\* and TypeError of output[9][1] leave the method.
AuthenticatedPersonUncaught(output, email) ==
    LET block == At(output, <<9, 1>>)
        p     == Populate(AuthenticatedData(email, block.val))
    IN  CASE block.exc # "none" -> [exc |-> block.exc, people |-> <<>>]
          [] p.exc = "InvalidData" -> [exc |-> "none", people |-> <<>>]
          [] p.exc # "none" -> [exc |-> p.exc, people |-> <<>>]
          [] OTHER -> [exc |-> "none", people |-> <<p.person>>]

\* get_authenticated_person: IndexError, TypeError and InvalidData give None
\* (no person); any other exception leaves the method.
get_authenticated_person(output, email) ==
    LET block == At(output, <<9, 1>>)
        p     == Populate(AuthenticatedData(email, block.val))
    IN  CASE block.exc \in {"IndexError", "TypeError"} ->
                [exc |-> "none", people |-> <<>>]
          [] block.exc # "none" -> [exc |-> block.exc, people |-> <<>>]
          [] p.exc = "InvalidData" -> [exc |-> "none", people |-> <<>>]
          [] p.exc # "none" -> [exc |-> p.exc, people |-> <<>>]
          [] OTHER -> [exc |-> "none", people |-> <<p.person>>]
\* The Greek letter sigma: its small form, and the small form it takes at
\* the end of a word.
Sigma == 48

FinalSigma == 47

\* The lower case of the character at i: an upper-case character is the
\* negated code of its lower-case one; a capital sigma that ends a word of
\* cased letters becomes the final sigma.
LowerAt(cs, i) ==
    IF cs[i].n = 0 - Sigma /\ i > 1 /\ i = Len(cs) THEN FinalSigma
    ELSE IF cs[i].n < 0 THEN 0 - cs[i].n ELSE cs[i].n

\* str.lower().  A value that is no str has no lower(): AttributeError.
Lower(x) ==
    IF x.t = "str"
    THEN Ok(Str([i \in 1..Len(x.v) |-> Chr(LowerAt(x.v, i))]))
    ELSE Raise("AttributeError")

\* next((person for person in people if person.<field>.lower() == name.lower()),
\* None): the persons are visited in order and the visit ends at the first
\* match; a person whose field has no lower() raises when it is visited.
RECURSIVE FirstMatch(_, _, _)
FirstMatch(people, field, name) ==
    IF people = <<>> THEN [exc |-> "none", people |-> <<>>]
    ELSE LET mine   == Lower(Head(people)[field])
             theirs == Lower(name)
         IN  CASE mine.exc # "none"   -> [exc |-> mine.exc, people |-> <<>>]
               [] theirs.exc # "none" -> [exc |-> theirs.exc, people |-> <<>>]
               [] mine.val = theirs.val ->
                    [exc |-> "none", people |-> <<Head(people)>>]
               [] OTHER -> FirstMatch(Tail(people), field, name)

ListOps == {"get_shared_people", "get_authenticated_person", "get_all_people"}

NicknameOps == {"get_person_by_nickname", "get_coordinates_by_nickname"}

FullNameOps == {"get_person_by_full_name", "get_coordinates_by_full_name"}

CoordinateOps == {"get_coordinates_by_nickname", "get_coordinates_by_full_name"}

PersonOps == {"get_person_by_nickname", "get_person_by_full_name"}

Ops == ListOps \cup NicknameOps \cup FullNameOps

EmptyPair == <<Str(<<>>), Str(<<>>)>>

\* What a query returns once both reads are decoded: `people` is
\* get_shared_people() + [get_authenticated_person()] with the None filtered
\* out.  A result is [exc, people, coords]: the persons returned (none, one,
\* or the list) and, for a coordinate lookup, the pair returned.
Answer(op, name, people) ==
    LET found == FirstMatch(people, IF op \in NicknameOps THEN "nickname"
                                    ELSE "full_name", name)
    IN  CASE op \in ListOps -> [exc |-> "none", people |-> people, coords |-> <<>>]
          [] op \in PersonOps ->
               [exc |-> found.exc, people |-> found.people, coords |-> <<>>]
          [] OTHER ->
               [exc |-> found.exc, people |-> <<>>,
                coords |-> IF found.exc # "none" THEN <<>>
                           ELSE IF found.people = <<>> THEN EmptyPair
                           ELSE <<found.people[1].latitude,
                                  found.people[1].longitude>>]
(***************************************************************************)
(* The HTTP response of the read endpoint.  Its text is a sequence of      *)
(* tokens: single characters, and whole JSON documents (the text json      *)
(* would parse into `doc`).                                                *)
(***************************************************************************)
Tok(c) == [c |-> c, doc |-> Null]

Doc(j) == [c |-> "json", doc |-> j]

Quote == Tok("'")

Newline == Tok("\n")

\* The prefix the endpoint puts before the JSON array: )]}' and a line break.
HijackPrefix == <<Tok(")"), Tok("]"), Tok("}"), Quote, Newline>>

\* text.split("'", 1): the text itself when it holds no quote, else the text
\* before and the text after its first quote.
Split(text) ==
    LET quotes == {i \in 1..Len(text) : text[i] = Quote}
    IN  IF quotes = {} THEN <<text>>
        ELSE LET i == CHOOSE k \in quotes : \A m \in quotes : k <= m
             IN  <<SubSeq(text, 1, i - 1), SubSeq(text, i + 1, Len(text))>>

\* json.loads(text): one JSON document, white space around it allowed;
\* anything else is a ValueError.
JsonLoads(text) ==
    LET body == SelectSeq(text, LAMBDA k : k # Newline)
    IN  IF Len(body) = 1 /\ body[1].c = "json" THEN Ok(body[1].doc)
        ELSE Raise("ValueError")

\* data = [''] of _get_data: what it returns when the fetch fails.
EmptyEnvelope == List(<<Str(<<>>)>>)

\* _get_data raising on a text it cannot split or parse, instead of
\* returning [''].
GetDataBodyRaising(response) ==
    IF response.ok
    THEN LET parts  == Split(response.text)
             parsed == IF Len(parts) < 2 THEN Raise("IndexError")
                       ELSE JsonLoads(parts[2])
         IN  IF parsed.exc # "none" THEN Raise("InvalidEnvelope") ELSE parsed
    ELSE Ok(EmptyEnvelope)

\* The body of _get_data after the GET returned `response`: the parsed array,
\* or [''] on a status that is not ok and on a text that cannot be split or
\* parsed.  It raises nothing.
GetDataBody(response) ==
    IF response.ok
    THEN LET parts  == Split(response.text)
             parsed == IF Len(parts) < 2 THEN Raise("IndexError")
                       ELSE JsonLoads(parts[2])
         IN  IF parsed.exc \in {"ValueError", "IndexError", "TypeError"}
             THEN Ok(EmptyEnvelope) ELSE parsed
    ELSE Ok(EmptyEnvelope)

(***************************************************************************)
(* STATE_CACHE = TTLCache(maxsize=1, ttl=STATE_CACHING_SECONDS), one for   *)
(* the module.  It is the sequence of its entries [key, value, expire],    *)
(* oldest first; `cached` keys an entry by the Service the method is       *)
(* called on.                                                              *)
(***************************************************************************)
STATE_CACHING_SECONDS == 30

MaxSize == 1

\* A cache whose entries never expire.
ExpiredNever(entry, time) == FALSE

\* TTLCache reads an entry as expired once the clock is past its expiry and
\* as live while the clock is before it; at the very instant of expiry the
\* releases of cachetools differ, and both answers are kept.
Expired(entry, time) == entry.expire < time

Live(entry, time) == time < entry.expire

\* A cache that does not tell the instances apart: hashkey() without self.
EntriesOfAny(cache, key) == cache

\* The entries `cached` finds under hashkey(self): those of the instance.
Entries(cache, key) == SelectSeq(cache, LAMBDA e : e.key = key)

\* cache[key] may return the stored value.
MayHit(cache, key, time) ==
    IF Entries(cache, key) = <<>> THEN FALSE
    ELSE ~Expired(Entries(cache, key)[1], time)

\* cache[key] may raise KeyError.
MayMiss(cache, key, time) ==
    IF Entries(cache, key) = <<>> THEN TRUE
    ELSE ~Live(Entries(cache, key)[1], time)

\* The entries popitem() leaves so that one more fits: the oldest go first.
RECURSIVE Evict(_, _)
Evict(cache, maxsize) ==
    IF Len(cache) + 1 > maxsize /\ cache # <<>> THEN Evict(Tail(cache), maxsize)
    ELSE cache

\* A wrapper that never stores what _get_data returned.
SetItemForgets(cache, key, value, time) == cache

\* cache[key] = value at `time`: the expired entries are removed, an entry of
\* the key is replaced, and the oldest entries make room for a new key.
SetItem(cache, key, value, time) ==
    LET live   == SelectSeq(cache, LAMBDA e : ~Expired(e, time))
        others == SelectSeq(live, LAMBDA e : e.key # key)
        kept   == IF Len(others) < Len(live) THEN others ELSE Evict(others, MaxSize)
    IN  Append(kept, [key |-> key, value |-> value,
                      expire |-> time + STATE_CACHING_SECONDS])
(***************************************************************************)
(* The envelopes and responses the model draws from.                       *)
(***************************************************************************)
\* "Al", "al" and "Bo": upper case is the negated code.
NameAl == Str(<<Chr(0 - 1), Chr(12)>>)

NameLowerAl == Str(<<Chr(1), Chr(12)>>)

NameBo == Str(<<Chr(0 - 2), Chr(15)>>)

\* The location block of an entry (index 1) and of the account (index 9, 1):
\* [_, [_, longitude, latitude], timestamp, accuracy, address, _, country].
LocationBlock(lat, lon) ==
    List(<<Null, List(<<Null, Num(lon), Num(lat)>>), Num(1500), Num(20),
           Str(<<Chr(19)>>), Null, Str(<<Chr(14), Chr(12)>>)>>)

IdentityBlock(name) == List(<<Num(7), Null, name, name>>)

\* One shared entry: the location block at 1, the identity block at 6, the
\* battery block at 13.
Entry(location, identity, battery) ==
    List(<<Null, location, Null, Null, Null, Null, identity,
           Null, Null, Null, Null, Null, Null, battery>>)

EntryAl == Entry(LocationBlock(52, 4), IdentityBlock(NameAl), List(<<Num(1), Num(80)>>))

\* The parsed array: the shared entries at 0, the account's own data at 9.
Envelope(shared, account) ==
    List(<<shared, Null, Null, Null, Null, Null, Null, Null, Null, account>>)

EnvelopeA == Envelope(List(<<EntryAl>>), List(<<Null, LocationBlock(48, 2)>>))

\* The battery block (index 13) of an entry whose other positions are right:
\* absent (the entry has 13 elements), null, [], [1], a number, a str, an object.
ShortEntry(location, identity) ==
    List(<<Null, location, Null, Null, Null, Null, identity,
           Null, Null, Null, Null, Null, Null>>)

BatteryShapes ==
    {Null, List(<<>>), List(<<Num(1)>>), Num(5), Str(<<Chr(1), Chr(2)>>), Dict(<<>>)}

EntryBo(battery) == Entry(LocationBlock(40, 3), IdentityBlock(NameBo), battery)

\* The identifier (index 6, 0) of an entry whose other positions are right:
\* null, the empty str, 0.
IdShapes == {Null, Str(<<>>), Num(0)}

EntryId(id) ==
    Entry(LocationBlock(40, 3), List(<<id, Null, NameBo, NameBo>>), Null)

WellFormedEntries ==
    {EntryAl, ShortEntry(LocationBlock(40, 3), IdentityBlock(NameBo))}
        \cup {EntryBo(b) : b \in BatteryShapes}
        \cup {EntryId(id) : id \in IdShapes}

\* Entries with a required position missing or of a wrong shape: no
\* coordinate block, a location block cut before the country code, an
\* identity block of three elements, a str or an object where an array is
\* expected, and an entry that is null, a str or an object itself.
MalformedEntries ==
    {Entry(List(<<Null, Null, Num(1500), Num(20), Str(<<Chr(19)>>), Null, Null>>),
           IdentityBlock(NameBo), Null),
     Entry(List(<<Null, List(<<Null, Num(3), Num(40)>>), Num(1500)>>),
           IdentityBlock(NameBo), Null),
     Entry(LocationBlock(40, 3), List(<<Num(7), Null, NameBo>>), Null),
     Entry(LocationBlock(40, 3), Str(<<Chr(1), Chr(2), Chr(3), Chr(4)>>), Null),
     Entry(LocationBlock(40, 3), Dict(<<>>), Null),
     Entry(Dict(<<>>), IdentityBlock(NameBo), Null),
     Null, Str(<<Chr(1)>>), Dict(<<>>)}

DecodeEntries == WellFormedEntries \cup MalformedEntries

\* Index 0 of the envelope: null, [], a list of one or two entries, a value
\* that is no list.
SharedShapes ==
    {Null, List(<<>>), Num(0), Dict(<<Str(<<Chr(1)>>)>>)}
        \cup {List(<<e>>) : e \in DecodeEntries}
        \cup {List(<<e, EntryAl>>) : e \in DecodeEntries}
        \cup {List(<<EntryAl, e>>) : e \in DecodeEntries}

\* Index 9 of the envelope: the account's data, null, a list too short, an
\* object.
AccountShapes ==
    {List(<<Null, LocationBlock(48, 2)>>), Null, List(<<Null>>), Dict(<<>>)}

DecodeEnvelopes ==
    {Envelope(s, a) : s \in SharedShapes, a \in AccountShapes}
        \cup {List(<<>>), List(<<Null>>), Null, Dict(<<>>)}

NoResponse == [ok |-> FALSE, text |-> <<>>]

GoodResponse(envelope) == [ok |-> TRUE, text |-> HijackPrefix \o <<Doc(envelope)>>]

\* A 200 whose text has no quote at all: the JSON without the prefix.
NoPrefixResponse == [ok |-> TRUE, text |-> <<Doc(EnvelopeA)>>]

\* A 200 whose text after the quote is no JSON (an HTML page).
GarbageResponse == [ok |-> TRUE, text |-> HijackPrefix \o <<Tok("<")>>]

\* A status that is not ok.
ErrorResponse == [ok |-> FALSE, text |-> <<Tok("<")>>]

\* A 200 with another prefix before the quote: split and json take it.
OtherPrefixResponse == [ok |-> TRUE, text |-> <<Tok("x"), Quote, Doc(EnvelopeA)>>]

FailedResponses == {NoPrefixResponse, GarbageResponse, ErrorResponse}

Responses == {GoodResponse(EnvelopeA), ErrorResponse}

DecodeResponses ==
    {GoodResponse(e) : e \in DecodeEnvelopes} \cup FailedResponses
        \cup {OtherPrefixResponse}

DecodeNames == {NameLowerAl, NameAl, NameBo, Str(<<Chr(26)>>)}

\* The lookups: "ασ" and "ΑΣ", which differ in case alone, and entries whose
\* nickname or full name is null.
NameSigma == Str(<<Chr(31), Chr(Sigma)>>)

NameUpperSigma == Str(<<Chr(0 - 31), Chr(0 - Sigma)>>)

NameNobody == Str(<<Chr(26)>>)

EntrySigma == Entry(LocationBlock(38, 23), IdentityBlock(NameSigma), Null)

EntryNoNickname ==
    Entry(LocationBlock(40, 3), List(<<Num(7), Null, NameBo, Null>>), Null)

EntryNoFullName ==
    Entry(LocationBlock(40, 3), List(<<Num(7), Null, Null, NameBo>>), Null)

LookupEntries ==
    {EntryAl, EntryBo(Null), EntrySigma, EntryNoNickname, EntryNoFullName}

LookupEnvelopes ==
    {Envelope(shared, account) :
        shared \in {List(<<>>)} \cup {List(<<e>>) : e \in LookupEntries}
                      \cup {List(<<e, f>>) : e, f \in LookupEntries},
        account \in {List(<<Null, LocationBlock(48, 2)>>), Null}}

LookupResponses == {GoodResponse(e) : e \in LookupEnvelopes}

LookupNames == {NameLowerAl, NameAl, NameSigma, NameUpperSigma, NameNobody}

Services == {"A", "B"}

Threads == {"t1"}

TwoThreads == {"t1", "t2"}

\* The email each Service was constructed with.
Email(s) == IF s = "A" THEN NameLowerAl ELSE NameBo

Names == {NameLowerAl}

(***************************************************************************)
(* Authenticator: the cookie file, the cookie jar of the requests Session  *)
(* and the pages accounts.google.com answers with.                         *)
(***************************************************************************)
Cookie(name, value) == [name |-> name, value |-> value]

\* The Session keeps the cookies a response sets: they go into its jar and
\* replace the cookies of the same name.
Merge(jar, cookies) ==
    {c \in jar : \A d \in cookies : d.name # c.name} \cup cookies

\* What can be on disk at cookies_file: nothing, a file the process may
\* neither read nor write, bytes that are no pickle, a pickled cookie jar.
AbsentFile == [kind |-> "absent", jar |-> {}]

LockedFile == [kind |-> "locked", jar |-> {}]

GarbageFile == [kind |-> "garbage", jar |-> {}]

PickledJar(jar) == [kind |-> "pickle", jar |-> jar]

\* open(cookies_file, 'rb').
OpenRead(file) ==
    IF file.kind \in {"absent", "locked"} THEN Raise("IOError") ELSE Ok(file)

\* pickle.load(cfile): the jar of a pickle; on other bytes the exception
\* depends on the bytes and on the unpickler in use (KeyError from the
\* dispatch table of the Python one, UnpicklingError from the C one).
PickleLoad(file) ==
    IF file.kind = "pickle" THEN {Ok(file.jar)}
    ELSE {Raise("KeyError"), Raise("UnpicklingError")}

\* _validate_cookie without `self._session.cookies =`: the jar that
\* pickle.load returns is dropped.
LoadCookieUnassigned(file) ==
    IF OpenRead(file).exc # "none"
    THEN {[returns |-> "False", exc |-> "none", jar |-> {}]}
    ELSE {IF r.exc = "none"
          THEN [returns |-> "loaded", exc |-> "none", jar |-> {}]
          ELSE IF r.exc = "KeyError"
          THEN [returns |-> "False", exc |-> "none", jar |-> {}]
          ELSE [returns |-> "raise", exc |-> r.exc, jar |-> {}]
          : r \in PickleLoad(file)}

\* _validate_cookie up to its GET: the jar is loaded, or the method returns
\* False (IOError, KeyError), or the exception of pickle.load leaves it.
LoadCookie(file) ==
    LET opened == OpenRead(file)
    IN  IF opened.exc # "none"
        THEN {[returns |-> "False", exc |-> "none", jar |-> {}]}
        ELSE {IF r.exc = "none"
              THEN [returns |-> "loaded", exc |-> "none", jar |-> r.val]
              ELSE IF r.exc = "KeyError"
              THEN [returns |-> "False", exc |-> "none", jar |-> {}]
              ELSE [returns |-> "raise", exc |-> r.exc, jar |-> {}]
              : r \in PickleLoad(file)}

\* `if cookies_file and ...` with no cookies_file given.
NotLoaded == [returns |-> "False", exc |-> "none", jar |-> {}]

\* open(cookies_file, 'wb').
OpenWrite(file) == IF file.kind = "locked" THEN Raise("IOError") ELSE Ok(file)

SignInTitle == "Sign in - Google Accounts"

INVALID_EMAIL_MESSAGE == "Sorry, Google doesn&#39;t recognize that email."

INVALID_PASSWORD_TOKEN == "Wrong password. Try again."

TOO_MANY_ATTEMPTS == "Unavailable because of too many failed attempts"

\* A response of accounts.google.com: the messages its text holds, whether
\* the text holds a form, and the cookies it sets.
Page(has, form, cookies) == [has |-> has, form |-> form, cookies |-> cookies]

LoginUrl == "https://accounts.google.com"

ServiceLoginUrl == "https://accounts.google.com/ServiceLogin"

LookupUrl == "https://accounts.google.com/signin/v1/lookup"

PasswordUrl == "https://accounts.google.com/signin/challenge/sl/password"

ReadUrl == "https://www.google.com/maps/preview/locationsharing/read"

LogoutUrl == "https://accounts.google.com/Logout"

\* A request that has no response yet.
NoReply == Page({"no response yet"}, FALSE, {})

\* A request of the Session of Service s, with the response it gets.
Request(s, method, url, data) ==
    [svc |-> s, method |-> method, url |-> url, data |-> data, reply |-> NoReply]

\* The cookies of the model: SID stands for a cookie that identifies the
\* account, NID for one that does not.
SessionCookies == {Cookie("SID", 1), Cookie("NID", 1)}

Files ==
    {AbsentFile, LockedFile, GarbageFile}
        \cup {PickledJar(jar) : jar \in SUBSET SessionCookies}

SetCookies == {{}, {Cookie("NID", 2)}, {Cookie("SID", 2)}}

\* What the login page answers to _validate_cookie: the page of a signed-in
\* session, which may set a cookie, or the sign-in page.
ValidatePages ==
    {Page({}, TRUE, cookies) : cookies \in SetCookies}
        \cup {Page({SignInTitle}, TRUE, {})}

\* What ServiceLogin answers to _initialize: a page with or without a form.
InitializePages == {Page({}, TRUE, {}), Page({}, FALSE, {})}

\* What the lookup answers to _submit_email.
EmailPages ==
    {Page({}, TRUE, {}), Page({INVALID_EMAIL_MESSAGE}, TRUE, {}), Page({}, FALSE, {})}

\* What the password challenge answers to _submit_password: the account's
\* cookie, a page that sets none, or a rejection.
PasswordPages ==
    {Page({}, TRUE, {Cookie("SID", 2)}), Page({}, TRUE, {}),
     Page({INVALID_PASSWORD_TOKEN}, TRUE, {}), Page({TOO_MANY_ATTEMPTS}, TRUE, {}),
     Page({INVALID_PASSWORD_TOKEN, TOO_MANY_ATTEMPTS}, TRUE, {})}

\* What the read endpoint answers to a session that is not signed in: the
\* sign-in page, a status that is not ok, or an array with no entries, an
\* empty marker at index 6 and no account data.
SignInResponse == [ok |-> TRUE, text |-> <<Tok("<"), Tok(SignInTitle)>>]

UnauthorizedResponse == [ok |-> FALSE, text |-> <<Tok(SignInTitle)>>]

UnauthenticatedEnvelope ==
    List(<<List(<<>>), Null, Null, Null, Null, Null, Str(<<>>), Null, Null, Null>>)

SignedOutResponses ==
    {SignInResponse, UnauthorizedResponse, GoodResponse(UnauthenticatedEnvelope)}

SessionResponses == {GoodResponse(EnvelopeA)} \cup SignedOutResponses

\* What Logout answers: a status that is ok or not, and the cookies it sets
\* (Google overwrites the account's cookie).
LogoutPage(ok, cookies) ==
    [has |-> {}, form |-> FALSE, cookies |-> cookies, ok |-> ok]

LogoutPages == {LogoutPage(TRUE, {Cookie("SID", 0)}), LogoutPage(FALSE, {})}

\* A Service not constructed yet, and one whose constructor returned.
\* `cookies_file` tells whether the constructor was given one.
NoSession == [state |-> "none", exc |-> "none", jar |-> {}, cookies_file |-> FALSE]

ReadySession ==
    [state |-> "ready", exc |-> "none", jar |-> {Cookie("SID", 1)},
     cookies_file |-> FALSE]

(***************************************************************************)
(* The state.                                                              *)
(***************************************************************************)
\* The clock stops at MaxTime: past one TTL, so that an entry stored at 0
\* is seen live, at its instant of expiry and expired.
MaxTime == 45

\* The clock advances in steps of TickSeconds.
TickSeconds == 15

\* The calls of _get_data in a behaviour; a query makes at most two.
MaxReads == 4

\* The calls of logout in a behaviour.
MaxLogouts == 1

VARIABLES
    now,          \* the clock of the TTLCache's timer, in seconds
    STATE_CACHE,  \* the module's cache
    pc,           \* where each caller is in its constructor or query
    frame,        \* each caller's call: the Service, the method, its locals
    log,          \* the calls of _get_data so far, in the order they returned
    done,         \* the query that returned last, with its result
    cookies_file, \* what is on disk at the path the caller gave as cookies_file
    session,      \* each Service: how its constructor ended, and its cookie jar
    net           \* the requests sent so far, in the order they were sent

vars == <<now, STATE_CACHE, pc, frame, log, done, cookies_file, session, net>>

authVars == <<cookies_file, session, net>>

NoFrame == [svc |-> "", op |-> "", name |-> Null, at |-> 0, outs |-> <<>>,
            people |-> <<>>, cookies_file |-> FALSE]

\* `people` are the Persons a query returned, `view` their properties as
\* the caller reads them, `value` what logout returned.
NoQuery == [svc |-> "", op |-> "", name |-> Null, outs |-> <<>>, exc |-> "none",
            people |-> <<>>, coords |-> <<>>, view |-> <<>>, value |-> Null]

InitOver(T) ==
    /\ now = 0
    /\ STATE_CACHE = <<>>
    /\ pc = [t \in T |-> "idle"]
    /\ frame = [t \in T |-> NoFrame]
    /\ log = <<>>
    /\ done = NoQuery
    /\ net = <<>>

\* The Services are constructed, each with a live session.
Constructed ==
    /\ cookies_file = AbsentFile
    /\ session = [s \in Services |-> ReadySession]

\* The query of caller t returns (or raises) `result`.
Return(t, result, outs) ==
    /\ pc' = [pc EXCEPT ![t] = "idle"]
    /\ frame' = [frame EXCEPT ![t] = NoFrame]
    /\ done' = [svc |-> frame[t].svc, op |-> frame[t].op, name |-> frame[t].name,
                outs |-> outs, exc |-> result.exc, people |-> result.people,
                coords |-> result.coords,
                view |-> [i \in 1..Len(result.people) |->
                             Properties(result.people[i])],
                value |-> Null]

Raised(e) == [exc |-> e, people |-> <<>>, coords |-> <<>>]

\* self._get_data() returned `out` to caller t: get_shared_people decodes it
\* and returns, or hands its list to get_all_people, which goes on to
\* get_authenticated_person; get_authenticated_person decodes it and the
\* query answers.
Proceed(t, out) ==
    LET f      == frame[t]
        outs   == Append(f.outs, out)
        shared == get_shared_people(out.env)
        auth   == get_authenticated_person(out.env, Email(f.svc))
    IN  IF pc[t] \in {"shared", "shared_get"}
        THEN CASE shared.exc # "none" -> Return(t, Raised(shared.exc), outs)
               [] f.op = "get_shared_people" ->
                    Return(t, Answer(f.op, f.name, shared.people), outs)
               [] OTHER ->
                    /\ pc' = [pc EXCEPT ![t] = "auth"]
                    /\ frame' = [frame EXCEPT ![t].outs = outs,
                                              ![t].people = shared.people]
                    /\ done' = done
        ELSE IF auth.exc # "none" THEN Return(t, Raised(auth.exc), outs)
             ELSE Return(t, Answer(f.op, f.name, f.people \o auth.people), outs)

\* A caller starts a query on Service s.
Call(t, s, op, name) ==
    /\ pc[t] = "idle"
    /\ session[s].state = "ready"
    /\ Len(log) + 2 * (Cardinality({u \in DOMAIN pc : pc[u] # "idle"}) + 1) <= MaxReads
    /\ pc' = [pc EXCEPT ![t] = IF op = "get_authenticated_person"
                                THEN "auth" ELSE "shared"]
    /\ frame' = [frame EXCEPT ![t] = [NoFrame EXCEPT !.svc = s, !.op = op,
                                                     !.name = name]]
    /\ UNCHANGED <<now, STATE_CACHE, log, done>>
    /\ UNCHANGED authVars

\* A hit whose decoding empties the list it was handed, the cached one.
GetDataCachedConsumes(t) ==
    /\ pc[t] \in {"shared", "auth"}
    /\ MayHit(STATE_CACHE, frame[t].svc, now)
    /\ LET out == Entries(STATE_CACHE, frame[t].svc)[1].value
       IN  /\ log' = Append(log, [svc |-> frame[t].svc, at |-> now,
                                  fetched |-> FALSE, response |-> NoResponse,
                                  exc |-> "none", out |-> out])
           /\ Proceed(t, out)
    /\ STATE_CACHE' = [n \in 1..Len(STATE_CACHE) |->
                         IF STATE_CACHE[n].key = frame[t].svc
                         THEN [STATE_CACHE[n] EXCEPT !.value.env = EmptyEnvelope]
                         ELSE STATE_CACHE[n]]
    /\ UNCHANGED now
    /\ UNCHANGED authVars

\* The wrapper of `cached` finds the Service's entry: _get_data is not run.
GetDataCached(t) ==
    /\ pc[t] \in {"shared", "auth"}
    /\ MayHit(STATE_CACHE, frame[t].svc, now)
    /\ LET out == Entries(STATE_CACHE, frame[t].svc)[1].value
       IN  /\ log' = Append(log, [svc |-> frame[t].svc, at |-> now,
                                  fetched |-> FALSE, response |-> NoResponse,
                                  exc |-> "none", out |-> out])
           /\ Proceed(t, out)
    /\ UNCHANGED <<now, STATE_CACHE>>
    /\ UNCHANGED authVars

\* The wrapper finds no entry: _get_data runs and sends the GET.
GetDataRequest(t) ==
    /\ pc[t] \in {"shared", "auth"}
    /\ MayMiss(STATE_CACHE, frame[t].svc, now)
    /\ pc' = [pc EXCEPT ![t] = IF pc[t] = "shared" THEN "shared_get" ELSE "auth_get"]
    /\ frame' = [frame EXCEPT ![t].at = now]
    /\ net' = Append(net, Request(frame[t].svc, "GET", ReadUrl, ""))
    /\ UNCHANGED <<now, STATE_CACHE, log, done, cookies_file, session>>

\* The GET returns: _get_data parses the response and the wrapper stores
\* what it returned under the Service's key.
GetDataResponse(t, response) ==
    /\ pc[t] \in {"shared_get", "auth_get"}
    /\ LET data == GetDataBody(response)
           out  == [env |-> data.val, fetchTime |-> now]
       IN  /\ log' = Append(log, [svc |-> frame[t].svc, at |-> frame[t].at,
                                  fetched |-> TRUE, response |-> response,
                                  exc |-> data.exc, out |-> out])
           /\ IF data.exc = "none"
              THEN /\ STATE_CACHE' = SetItem(STATE_CACHE, frame[t].svc, out, now)
                   /\ Proceed(t, out)
              ELSE /\ STATE_CACHE' = STATE_CACHE
                   /\ Return(t, Raised(data.exc), frame[t].outs)
    /\ UNCHANGED now
    /\ UNCHANGED authVars

\* Time passes.
Tick ==
    /\ now + TickSeconds <= MaxTime
    /\ now' = now + TickSeconds
    /\ UNCHANGED <<STATE_CACHE, pc, frame, log, done>>
    /\ UNCHANGED authVars

\* The response `page` of the request sent last is there.
Reply(page) == [net EXCEPT ![Len(net)].reply = page]

\* The constructor of caller t ends: with the exception e that leaves it, or
\* ("none") with the Service.
EndInit(t, e, jar) ==
    /\ session' = [session EXCEPT ![frame[t].svc].state =
                                     IF e = "none" THEN "ready" ELSE "failed",
                                 ![frame[t].svc].exc = e,
                                 ![frame[t].svc].jar = jar]
    /\ pc' = [pc EXCEPT ![t] = "idle"]
    /\ frame' = [frame EXCEPT ![t] = NoFrame]

\* self._session.<method>(url, data) in the constructor of Service s, which
\* caller t goes on with at `to` when the response is there; `sent` are the
\* requests before this one.
Send(t, s, sent, method, url, data, to, jar) ==
    /\ net' = Append(sent, Request(s, method, url, data))
    /\ session' = [session EXCEPT ![s].state = "init", ![s].jar = jar]
    /\ pc' = [pc EXCEPT ![t] = to]

\* Service(email, password, cookies_file): Authenticator.__init__ up to its
\* first request.  With a cookies_file that loads, _validate_cookie sends
\* its GET of the login page; when _validate_cookie returns False, or no
\* cookies_file is given, _authenticate starts with _initialize.
Construct(t, s, given) ==
    /\ pc[t] = "idle"
    /\ session[s].state = "none"
    /\ \E load \in (IF given THEN LoadCookie(cookies_file) ELSE {NotLoaded}) :
         LET new == [session EXCEPT ![s].cookies_file = given]
         IN  CASE load.returns = "loaded" ->
                    /\ net' = Append(net, Request(s, "GET", LoginUrl, ""))
                    /\ session' = [new EXCEPT ![s].state = "init",
                                              ![s].jar = load.jar]
                    /\ pc' = [pc EXCEPT ![t] = "validate"]
                    /\ frame' = [frame EXCEPT ![t] =
                                   [NoFrame EXCEPT !.svc = s, !.op = "__init__",
                                                   !.cookies_file = given]]
               [] load.returns = "False" ->
                    /\ net' = Append(net, Request(s, "GET", ServiceLoginUrl, ""))
                    /\ session' = [new EXCEPT ![s].state = "init"]
                    /\ pc' = [pc EXCEPT ![t] = "initialize"]
                    /\ frame' = [frame EXCEPT ![t] =
                                   [NoFrame EXCEPT !.svc = s, !.op = "__init__",
                                                   !.cookies_file = given]]
               [] OTHER ->
                    /\ session' = [new EXCEPT ![s].state = "failed",
                                              ![s].exc = load.exc]
                    /\ UNCHANGED <<pc, frame, net>>
    /\ UNCHANGED <<now, STATE_CACHE, log, done, cookies_file>>

\* A constructor that exports the cookies after _validate_cookie returned
\* True as well.
ValidateResponseExports(t, page) ==
    /\ pc[t] = "validate"
    /\ net' = Reply(page)
    /\ LET jar == Merge(session[frame[t].svc].jar, page.cookies)
       IN  IF SignInTitle \in page.has
           THEN EndInit(t, "InvalidCookies", jar) /\ cookies_file' = cookies_file
           ELSE EndInit(t, "none", jar) /\ cookies_file' = PickledJar(jar)
    /\ UNCHANGED <<now, STATE_CACHE, log, done>>

\* _validate_cookie after its GET: the page of a session that is not signed
\* in raises InvalidCookies, any other page makes the constructor return.
ValidateResponse(t, page) ==
    /\ pc[t] = "validate"
    /\ net' = Reply(page)
    /\ EndInit(t, IF SignInTitle \in page.has THEN "InvalidCookies" ELSE "none",
               Merge(session[frame[t].svc].jar, page.cookies))
    /\ UNCHANGED <<now, STATE_CACHE, log, done, cookies_file>>

\* _initialize after its GET, and _submit_email up to its POST: a page with
\* no form makes soup.find('form') None, and find_all on it raises.
InitializeResponse(t, page) ==
    /\ pc[t] = "initialize"
    /\ LET jar == Merge(session[frame[t].svc].jar, page.cookies)
       IN  IF page.form
           THEN /\ Send(t, frame[t].svc, Reply(page), "POST", LookupUrl, "Email",
                        "email", jar)
                /\ frame' = frame
           ELSE /\ EndInit(t, "AttributeError", jar)
                /\ net' = Reply(page)
    /\ UNCHANGED <<now, STATE_CACHE, log, done, cookies_file>>

\* _submit_email without its check of INVALID_EMAIL_MESSAGE.
SubmitEmailUnchecked(t, page) ==
    /\ pc[t] = "email"
    /\ LET jar == Merge(session[frame[t].svc].jar, page.cookies)
       IN  IF ~page.form
           THEN EndInit(t, "AttributeError", jar) /\ net' = Reply(page)
           ELSE /\ Send(t, frame[t].svc, Reply(page), "POST", PasswordUrl,
                        "Passwd", "password", jar)
                /\ frame' = frame
    /\ UNCHANGED <<now, STATE_CACHE, log, done, cookies_file>>

\* _submit_email after its POST, and _submit_password up to its POST.
SubmitEmailResponse(t, page) ==
    /\ pc[t] = "email"
    /\ LET jar == Merge(session[frame[t].svc].jar, page.cookies)
       IN  CASE INVALID_EMAIL_MESSAGE \in page.has ->
                  EndInit(t, "InvalidUser", jar) /\ net' = Reply(page)
             [] ~page.form ->
                  EndInit(t, "AttributeError", jar) /\ net' = Reply(page)
             [] OTHER ->
                  /\ Send(t, frame[t].svc, Reply(page), "POST", PasswordUrl,
                          "Passwd", "password", jar)
                  /\ frame' = frame
    /\ UNCHANGED <<now, STATE_CACHE, log, done, cookies_file>>

\* _export_cookie: the jar is pickled into cookies_file, or the IOError of
\* open raises InvalidCookies.
ExportCookie(t, jar) ==
    IF OpenWrite(cookies_file).exc = "none"
    THEN cookies_file' = PickledJar(jar) /\ EndInit(t, "none", jar)
    ELSE cookies_file' = cookies_file /\ EndInit(t, "InvalidCookies", jar)

\* _submit_password after its POST: a rejected password raises; any other
\* page ends _authenticate, and the constructor exports the cookies when it
\* was given a cookies_file.
SubmitPasswordResponse(t, page) ==
    /\ pc[t] = "password"
    /\ net' = Reply(page)
    /\ LET jar == Merge(session[frame[t].svc].jar, page.cookies)
       IN  CASE INVALID_PASSWORD_TOKEN \in page.has ->
                  EndInit(t, "InvalidCredentials", jar) /\ cookies_file' = cookies_file
             [] TOO_MANY_ATTEMPTS \in page.has ->
                  EndInit(t, "TooManyFailedAuthenticationAttempts", jar)
                    /\ cookies_file' = cookies_file
             [] frame[t].cookies_file -> ExportCookie(t, jar)
             [] OTHER -> EndInit(t, "none", jar) /\ cookies_file' = cookies_file
    /\ UNCHANGED <<now, STATE_CACHE, log, done>>

\* The constructor, step by step.
NextInit(T, S) ==
    \/ \E t \in T, s \in S, given \in BOOLEAN : Construct(t, s, given)
    \/ \E t \in T, page \in ValidatePages : ValidateResponse(t, page)
    \/ \E t \in T, page \in InitializePages : InitializeResponse(t, page)
    \/ \E t \in T, page \in EmailPages : SubmitEmailResponse(t, page)
    \/ \E t \in T, page \in PasswordPages : SubmitPasswordResponse(t, page)

\* A logout whose response empties the module's cache.
LogoutResponseClears(t, page) ==
    /\ pc[t] = "logout"
    /\ net' = Reply(page)
    /\ session' = [session EXCEPT ![frame[t].svc].jar = Merge(@, page.cookies)]
    /\ pc' = [pc EXCEPT ![t] = "idle"]
    /\ frame' = [frame EXCEPT ![t] = NoFrame]
    /\ done' = [NoQuery EXCEPT !.svc = frame[t].svc, !.op = "logout",
                               !.value = Bool(page.ok)]
    /\ STATE_CACHE' = <<>>
    /\ UNCHANGED <<now, log, cookies_file>>

\* logout after its GET: it returns response.ok.  The Session keeps the
\* cookies the response set; nothing else of the Service changes.
LogoutResponse(t, page) ==
    /\ pc[t] = "logout"
    /\ net' = Reply(page)
    /\ session' = [session EXCEPT ![frame[t].svc].jar = Merge(@, page.cookies)]
    /\ pc' = [pc EXCEPT ![t] = "idle"]
    /\ frame' = [frame EXCEPT ![t] = NoFrame]
    /\ done' = [NoQuery EXCEPT !.svc = frame[t].svc, !.op = "logout",
                               !.value = Bool(page.ok)]
    /\ UNCHANGED <<now, STATE_CACHE, log, cookies_file>>

\* logout() on Service s: the GET of {login_url}/Logout is sent.
Logout(t, s) ==
    /\ pc[t] = "idle"
    /\ session[s].state = "ready"
    /\ Len(SelectSeq(net, LAMBDA r : r.url = LogoutUrl)) < MaxLogouts
    /\ net' = Append(net, Request(s, "GET", LogoutUrl, ""))
    /\ pc' = [pc EXCEPT ![t] = "logout"]
    /\ frame' = [frame EXCEPT ![t] = [NoFrame EXCEPT !.svc = s, !.op = "logout"]]
    /\ UNCHANGED <<now, STATE_CACHE, log, done, cookies_file, session>>

NextOver(T, S, R, N) ==
    \/ \E t \in T, s \in S, op \in ListOps : Call(t, s, op, Null)
    \/ \E t \in T, s \in S, op \in Ops \ ListOps, name \in N : Call(t, s, op, name)
    \/ \E t \in T : GetDataCached(t)
    \/ \E t \in T : GetDataRequest(t)
    \/ \E t \in T, response \in R : GetDataResponse(t, response)

\* The program as written: one caller at a time, two Services in the process.
Init == InitOver(Threads) /\ Constructed

Next == NextOver(Threads, Services, Responses, Names) \/ Tick

Spec == Init /\ [][Next]_vars

\* Two callers on one Service.
InitThreads == InitOver(TwoThreads) /\ Constructed

NextThreads == NextOver(TwoThreads, {"A"}, Responses, Names) \/ Tick

SpecThreads == InitThreads /\ [][NextThreads]_vars

\* The decoding alone: one caller, one Service, the clock standing still,
\* and every shape of response.
NextDecode == NextOver(Threads, {"A"}, DecodeResponses, DecodeNames)

SpecDecode == Init /\ [][NextDecode]_vars

\* The lookups alone: one caller, one Service, the clock standing still,
\* envelopes of up to two entries and names in both cases.
NextLookup == NextOver(Threads, {"A"}, LookupResponses, LookupNames)

SpecLookup == Init /\ [][NextLookup]_vars

\* The session: a Service is constructed from what is on disk, and queried
\* while Google answers as to a signed-in or to a signed-out session.
InitSession ==
    /\ InitOver(Threads)
    /\ cookies_file \in Files
    /\ session = [s \in Services |-> NoSession]

NextSession ==
    \/ NextInit(Threads, {"A"})
    \/ NextOver(Threads, {"A"}, SessionResponses, Names)

SpecSession == InitSession /\ [][NextSession]_vars

\* Logging out: one caller, one Service, queries before and after logout()
\* while time passes.
NextLogout ==
    \/ NextOver(Threads, {"A"}, Responses, Names)
    \/ Tick
    \/ \E t \in Threads : Logout(t, "A")
    \/ \E t \in Threads, page \in LogoutPages : LogoutResponse(t, page)

SpecLogout == Init /\ [][NextLogout]_vars
(***************************************************************************)
(* The claims.                                                             *)
(***************************************************************************)
Reads == 1..Len(log)

\* The reads i..j are all of one Service.
SameService(i, j) == \A k \in i..j : log[k].svc = log[i].svc

\* Read i is the last fetch of its Service before read j.
LastFetchBefore(i, j) ==
    /\ i < j
    /\ log[i].fetched
    /\ log[i].svc = log[j].svc
    /\ \A k \in (i + 1)..(j - 1) : ~(log[k].fetched /\ log[k].svc = log[i].svc)

\* C1: on one Service, the first read fetches, and the reads that follow a
\* fetching read within one TTL of it, with no read of another Service in
\* between, fetch nothing: one GET for the whole window, whatever the queries.
C1_OneFetchPerWindow ==
    /\ \A j \in Reads :
         (\A i \in 1..(j - 1) : log[i].svc # log[j].svc) => log[j].fetched
    /\ \A i, j \in Reads :
         (/\ i < j
          /\ SameService(i, j)
          /\ log[i].fetched
          /\ log[j].at - log[i].at < STATE_CACHING_SECONDS)
         => ~log[j].fetched

\* A fetch, then two more reads of the same Service, the last one later but
\* within the window, served from the cache.
C1_Witness ==
    /\ Len(log) >= 3
    /\ SameService(1, 3)
    /\ log[1].fetched /\ ~log[2].fetched /\ ~log[3].fetched
    /\ log[3].at > log[1].at
    /\ log[3].at - log[1].at < STATE_CACHING_SECONDS

\* C2: a read later than one TTL after the Service's last fetch fetches
\* again; the envelope a read returns is never older than the TTL; and the
\* cache holds exactly what the last fetch returned, expiring one TTL later.
C2_FreshAfterExpiry ==
    /\ \A i, j \in Reads :
         (LastFetchBefore(i, j)
          /\ log[j].at > log[i].out.fetchTime + STATE_CACHING_SECONDS)
         => log[j].fetched
    /\ \A j \in Reads :
         /\ log[j].at - log[j].out.fetchTime <= STATE_CACHING_SECONDS
         /\ log[j].fetched => log[j].out.fetchTime >= log[j].at
    /\ \A k \in Reads :
         (log[k].fetched /\ \A m \in (k + 1)..Len(log) : ~log[m].fetched)
         => STATE_CACHE = <<[key |-> log[k].svc, value |-> log[k].out,
                             expire |-> log[k].out.fetchTime + STATE_CACHING_SECONDS]>>

\* Two fetches of one Service more than a TTL apart, the second one's
\* envelope now in the cache.
C2_Witness ==
    \E i, j \in Reads :
        /\ LastFetchBefore(i, j)
        /\ log[j].fetched
        /\ log[j].at > log[i].out.fetchTime + STATE_CACHING_SECONDS
        /\ Len(STATE_CACHE) = 1
        /\ STATE_CACHE[1].value = log[j].out
        /\ log[j].out # log[i].out

\* C3: a query on another Service leaves a Service's entry alone: while the
\* window of a Service's last fetch has not elapsed, the cache holds what it
\* fetched, and two fetches of one Service are at least a TTL apart.
C3_CacheNotShared ==
    /\ \A k \in Reads :
         (/\ log[k].fetched
          /\ \A m \in (k + 1)..Len(log) : ~(log[m].fetched /\ log[m].svc = log[k].svc)
          /\ now < log[k].out.fetchTime + STATE_CACHING_SECONDS)
         => \E n \in 1..Len(STATE_CACHE) :
                /\ STATE_CACHE[n].key = log[k].svc
                /\ STATE_CACHE[n].value = log[k].out
    /\ \A i, j \in Reads :
         (i < j /\ log[i].svc = log[j].svc /\ log[i].fetched /\ log[j].fetched)
         => log[j].at - log[i].at >= STATE_CACHING_SECONDS

\* C4: two callers on one Service never both have a GET in flight.
C4_AtomicFetch ==
    \A t, u \in DOMAIN pc :
        (t # u /\ pc[t] \in {"shared_get", "auth_get"}
               /\ pc[u] \in {"shared_get", "auth_get"})
        => frame[t].svc # frame[u].svc

\* A list of at least n elements.
IsList(x, n) == x.t = "list" /\ Len(x.v) >= n

\* An entry whose required positions are there and arrays where arrays are
\* expected: the identity block at 6 (four elements), the location block at 1
\* (up to the country code at 6), the coordinate block at 1, 1.
WellFormed(entry) ==
    /\ IsList(entry, 7)
    /\ IsList(entry.v[7], 4)
    /\ IsList(entry.v[2], 7)
    /\ IsList(entry.v[2].v[2], 3)

\* The envelope the query that returned last decoded, and its index 0.
DoneEnvelope == done.outs[1].env

DoneShared == Index(DoneEnvelope, 0).val

SharedDecoded ==
    /\ done.op = "get_shared_people"
    /\ done.outs # <<>>
    /\ Index(DoneEnvelope, 0).exc = "none"

\* C5: get_shared_people on a list of entries returns, and returns as many
\* persons as there are well-formed entries.
C5_MalformedDropped ==
    (SharedDecoded /\ DoneShared.t = "list")
    => /\ done.exc = "none"
       /\ Len(done.people)
            = Cardinality({i \in 1..Len(DoneShared.v) : WellFormed(DoneShared.v[i])})

\* C6: get_shared_people on an envelope whose index 0 is null or [] returns
\* no person and raises nothing.
C6_EmptyShared ==
    (SharedDecoded /\ DoneShared \in {Null, List(<<>>)})
    => (done.exc = "none" /\ done.people = <<>>)

\* The battery block of an entry has no element k (counted from 0): it is
\* absent, or no list, or a list too short.
NoBattery(entry, k) == ~(IsList(entry, 14) /\ IsList(entry.v[14], k + 1))

\* C7: when every entry is well formed in its required positions, every
\* entry is decoded, whatever its index 13 looks like, and the field whose
\* element is not there is None.
C7_OptionalBattery ==
    (/\ SharedDecoded
     /\ DoneShared.t = "list"
     /\ \A i \in 1..Len(DoneShared.v) : WellFormed(DoneShared.v[i]))
    => /\ done.exc = "none"
       /\ Len(done.people) = Len(DoneShared.v)
       /\ \A i \in 1..Len(done.people) :
            /\ NoBattery(DoneShared.v[i], 0) => done.people[i].charging = Null
            /\ NoBattery(DoneShared.v[i], 1) => done.people[i].battery_level = Null

\* The text is the prefix and one JSON document.
WellFormedText(text) ==
    /\ Len(text) = Len(HijackPrefix) + 1
    /\ SubSeq(text, 1, Len(HijackPrefix)) = HijackPrefix
    /\ text[Len(text)].c = "json"

Unparseable(text) ==
    \/ \A i \in 1..Len(text) : text[i] # Quote
    \/ JsonLoads(Split(text)[2]).exc # "none"

C9_EmptyEnvelopeDecodes ==
    /\ \A k \in Reads :
         (log[k].fetched /\ ~log[k].response.ok)
         => (log[k].exc = "none" /\ log[k].out.env = EmptyEnvelope)
    /\ (/\ done.op # ""
        /\ done.outs # <<>>
        /\ \A i \in 1..Len(done.outs) : done.outs[i].env = EmptyEnvelope)
       => /\ done.exc = "none"
          /\ done.people = <<>>
          /\ done.coords = IF done.op \in CoordinateOps THEN EmptyPair ELSE <<>>

\* A coordinate lookup answered from the [''] of a failed status.
C9_Witness ==
    /\ \E k \in Reads : log[k].fetched /\ log[k].response = ErrorResponse
    /\ done.op \in CoordinateOps
    /\ Len(done.outs) = 2
    /\ \A i \in 1..Len(done.outs) : done.outs[i].env = EmptyEnvelope
    /\ done.coords = EmptyPair

\* The fetch of read k failed: the status, the prefix or the JSON.
FailedFetch(k) ==
    /\ log[k].fetched
    /\ ~(log[k].response.ok /\ WellFormedText(log[k].response.text))

\* C10: what a failed fetch returned is never in the cache, and the read
\* after a failed fetch fetches again.
C10_OnlySuccessCached ==
    /\ \A k \in Reads :
         FailedFetch(k) => \A n \in 1..Len(STATE_CACHE) : STATE_CACHE[n].value # log[k].out
    /\ \A k \in Reads :
         (FailedFetch(k) /\ k < Len(log) /\ log[k + 1].svc = log[k].svc)
         => log[k + 1].fetched

\* Every caller is between two calls.
Idle == \A t \in DOMAIN pc : pc[t] = "idle"

\* With one caller: the reads of the query that returned last.
LastReads == (Len(log) - Len(done.outs) + 1)..Len(log)

\* The query that returned last fetched, and every fetch it made was answered
\* as to a session that is not signed in.
AnsweredSignedOut ==
    /\ Idle
    /\ done.op # ""
    /\ done.outs # <<>>
    /\ log[Len(log) - Len(done.outs) + 1].fetched
    /\ \A k \in LastReads : log[k].fetched => log[k].response \in SignedOutResponses

\* The requests of the Session of Service s.
RequestsOf(s) == SelectSeq(net, LAMBDA r : r.svc = s)

\* C11: a session that is not signed in surfaces as an invalid-session error:
\* the constructor whose login page is the sign-in page raises
\* InvalidCookies, and so does every query that is answered as to a session
\* that is not signed in; none returns an empty result.
C11_InvalidSessionSurfaces ==
    /\ \A i \in 1..Len(net) :
         (net[i].url = LoginUrl /\ SignInTitle \in net[i].reply.has)
         => (session[net[i].svc].state = "failed"
             /\ session[net[i].svc].exc = "InvalidCookies")
    /\ AnsweredSignedOut => done.exc = "InvalidCookies"

\* The names of the cookies that identify the account.
IdentityNames == {"SID"}

HasIdentity(jar) == \E c \in jar : c.name \in IdentityNames

\* No password was submitted so far, so that no cookies were exported:
\* cookies_file is what the caller supplied.
FileAsSupplied == \A i \in 1..Len(net) : net[i].url # PasswordUrl

\* C12: a constructor given a cookie file that holds no identity cookie
\* fails, and its Session sends no request.
C12_MissingCredential ==
    \A s \in Services :
        (/\ session[s].cookies_file
         /\ FileAsSupplied
         /\ cookies_file.kind = "pickle"
         /\ ~HasIdentity(cookies_file.jar))
        => (session[s].state = "failed" /\ RequestsOf(s) = <<>>)

\* The exceptions of a cookie file that cannot be opened, read or unpickled.
CookieSourceErrors == {"InvalidCookies", "IOError", "KeyError", "UnpicklingError"}

\* C13: a constructor given a cookie file that cannot be opened or is no
\* pickle fails with an error of the cookie source: there is no Service, and
\* its Session sends no request.
C13_CookieSourceFatal ==
    \A s \in Services :
        (/\ session[s].cookies_file
         /\ cookies_file.kind \in {"absent", "locked", "garbage"})
        => /\ session[s].state = "failed"
           /\ session[s].exc \in CookieSourceErrors
           /\ RequestsOf(s) = <<>>

\* The constructor of Service s was given the cookie file that is on disk, a
\* pickled jar with an identity cookie.
GivenIdentityJar(s) ==
    /\ session[s].cookies_file
    /\ FileAsSupplied
    /\ cookies_file.kind = "pickle"
    /\ HasIdentity(cookies_file.jar)

\* C14 as stated: given a pickled jar with an identity cookie, the
\* constructor returns and the Session's jar is the pickled jar.
C14_ExactlyParsedCookies ==
    \A s \in Services :
        (GivenIdentityJar(s) /\ session[s].state # "init")
        => (session[s].state = "ready" /\ session[s].jar = cookies_file.jar)

\* C14 amended: given a pickled jar with an identity cookie, the Session
\* gets exactly that jar and sends one GET of the login page, and never a
\* POST; the sign-in page raises InvalidCookies, any other page makes the
\* constructor return, and the jar is then the pickled jar with the cookies
\* that page set (a cookie set replaces the one of its name).
C14_JarLoadedThenProbed ==
    \A s \in Services :
        GivenIdentityJar(s)
        => LET mine == RequestsOf(s)
               page == mine[1].reply
           IN  /\ mine # <<>>
               /\ mine[1].method = "GET" /\ mine[1].url = LoginUrl
               /\ \A i \in 1..Len(mine) : mine[i].method # "POST"
               /\ session[s].state \in {"init", "ready", "failed"}
               /\ session[s].state = "init"
                    => (page = NoReply /\ session[s].jar = cookies_file.jar)
               /\ session[s].state # "init"
                    => /\ \A c \in cookies_file.jar :
                            c \in session[s].jar
                              \/ \E d \in page.cookies : d.name = c.name
                       /\ \A c \in session[s].jar :
                            c \in cookies_file.jar \/ c \in page.cookies
                       /\ page.cookies \subseteq session[s].jar
                       /\ session[s].state = "failed" <=> SignInTitle \in page.has
                       /\ session[s].exc =
                            IF SignInTitle \in page.has THEN "InvalidCookies" ELSE "none"

\* A Service constructed from a pickled jar of two cookies, one of which the
\* login page has replaced.
C14_Witness ==
    /\ session["A"].state = "ready"
    /\ GivenIdentityJar("A")
    /\ cookies_file.jar = {Cookie("SID", 1), Cookie("NID", 1)}
    /\ session["A"].jar = {Cookie("SID", 1), Cookie("NID", 2)}

\* C15: no step of a constructor or of a query writes the cookie file.
C15_CookieFileNeverWritten == [][cookies_file' = cookies_file]_vars

\* The letters of a str with their case put aside: each in lower case, the
\* final sigma being a sigma.
Fold(x) ==
    [i \in 1..Len(x.v) |->
        LET n == IF x.v[i].n < 0 THEN 0 - x.v[i].n ELSE x.v[i].n
        IN  IF n = FinalSigma THEN Sigma ELSE n]

\* Two names that differ in the case of their letters at most.
SameButCase(a, b) == a.t = "str" /\ b.t = "str" /\ Fold(a) = Fold(b)

\* The query that returned last made both its reads, and both envelopes
\* decode: they give the persons of DoneAll, the shared ones first.
Decodable ==
    /\ Len(done.outs) = 2
    /\ get_shared_people(done.outs[1].env).exc = "none"
    /\ get_authenticated_person(done.outs[2].env, Email(done.svc)).exc = "none"

DoneAll ==
    get_shared_people(done.outs[1].env).people
        \o get_authenticated_person(done.outs[2].env, Email(done.svc)).people

DoneField == IF done.op \in NicknameOps THEN "nickname" ELSE "full_name"

\* The positions in DoneAll of the persons the name of the lookup names.
Hits == {k \in 1..Len(DoneAll) : SameButCase(DoneAll[k][DoneField], done.name)}

\* The lookup that returned last found nobody.
FoundNobody ==
    /\ done.exc = "none"
    /\ done.people = <<>>
    /\ done.coords = IF done.op \in CoordinateOps THEN EmptyPair ELSE <<>>

\* The lookup that returned last found person p.
Found(p) ==
    /\ done.exc = "none"
    /\ done.people = IF done.op \in PersonOps THEN <<p>> ELSE <<>>
    /\ done.coords = IF done.op \in CoordinateOps THEN <<p.latitude, p.longitude>>
                      ELSE <<>>

\* C16: on envelopes that decode, a lookup by a name that names no person
\* returns None, or ('', '') for the coordinates, and raises nothing, also
\* when a person's nickname or full name is null.
C16_NoMatchNeverRaises ==
    (done.op \in Ops \ ListOps /\ Decodable /\ Hits = {}) => FoundNobody

\* C17: on the same envelopes, a lookup by nickname or by full name gives
\* the same person for every name that differs from its name in case alone.
C17_CaseInsensitive ==
    (done.op \in PersonOps /\ Decodable)
    => \A other \in LookupNames :
           SameButCase(other, done.name)
           => /\ Answer(done.op, other, DoneAll).exc = done.exc
              /\ Answer(done.op, other, DoneAll).people = done.people

\* The persons `people` are those of the entries that decode, in the order
\* of the entries.
RECURSIVE InOrder(_, _)
InOrder(people, entries) ==
    IF entries = <<>> THEN people = <<>>
    ELSE IF Populate(Head(entries)).exc = "none"
    THEN /\ people # <<>>
         /\ Head(people) = Populate(Head(entries)).person
         /\ InOrder(Tail(people), Tail(entries))
    ELSE InOrder(people, Tail(entries))

\* C18: get_all_people returns the shared persons in the order of their
\* entries and then the account's person, when there is one; and a lookup
\* returns the first person, in that order, that its name names.
C18_OrderAndFirstMatch ==
    /\ (done.op = "get_all_people" /\ done.exc = "none"
           /\ Index(done.outs[1].env, 0).val.t = "list")
       => LET auth == get_authenticated_person(done.outs[2].env,
                                               Email(done.svc)).people
              n    == Len(done.people) - Len(auth)
          IN  /\ n >= 0
              /\ InOrder(SubSeq(done.people, 1, n),
                         Index(done.outs[1].env, 0).val.v)
              /\ SubSeq(done.people, n + 1, Len(done.people)) = auth
    /\ (done.op \in Ops \ ListOps /\ Decodable /\ Hits # {})
       => Found(DoneAll[CHOOSE k \in Hits : \A h \in Hits : k <= h])

\* The account's data at index 9 is there and has the shape
\* get_authenticated_person reads: [_, location block].
WellFormedAccount(output) ==
    /\ IsList(output, 10)
    /\ IsList(output.v[10], 2)
    /\ IsList(output.v[10].v[2], 7)
    /\ IsList(output.v[10].v[2].v[2], 3)

\* C19: get_authenticated_person never raises, and returns None when the
\* account's data is missing or has another shape.
C19_AuthenticatedNoneOnMalformed ==
    (done.op = "get_authenticated_person" /\ done.outs # <<>>)
    => /\ done.exc = "none"
       /\ ~WellFormedAccount(done.outs[1].env) => done.people = <<>>

\* C20: a query sends at most one GET to the read endpoint, and makes no
\* fetch after a fetch of its own that failed.
C20_NoRetry ==
    (Idle /\ done.op # "")
    => /\ Cardinality({k \in LastReads : log[k].fetched}) <= 1
       /\ \A j, k \in LastReads : (j < k /\ FailedFetch(j)) => ~log[k].fetched

\* The faults of Python's indexing, iteration and attribute access.
RawFaults == {"IndexError", "TypeError", "KeyError", "AttributeError"}

\* C21: whatever the parsed envelope looks like, no query lets a raw
\* indexing or type fault out: a query returns, or raises a decode failure.
C21_NoRawFault == done.exc \notin RawFaults

\* C22: Person(entry) raises InvalidData for every entry with a required
\* position missing or of a wrong shape, a str or an object in place of an
\* array included: get_shared_people drops each such entry and raises
\* nothing for it, and every Person it returns is that of a well-formed
\* entry, with all its required fields read from the entry.
C22_InvalidDataOnMalformed ==
    (SharedDecoded /\ DoneShared.t = "list")
    => /\ \A i \in 1..Len(DoneShared.v) :
            ~WellFormed(DoneShared.v[i])
            => Populate(DoneShared.v[i]).exc = "InvalidData"
       /\ (\A i \in 1..Len(DoneShared.v) :
              WellFormed(DoneShared.v[i]) => Populate(DoneShared.v[i]).exc = "none")
           => done.exc = "none"
       /\ \A k \in 1..Len(done.people) :
            \E i \in 1..Len(DoneShared.v) :
                /\ WellFormed(DoneShared.v[i])
                /\ \A n \in 1..Len(RequiredPaths) :
                     At(DoneShared.v[i], RequiredPaths[n]).exc = "none"
                /\ done.people[k] = Populate(DoneShared.v[i]).person

\* In this step the GET of a _get_data call returns.
FetchReturns ==
    \E t \in DOMAIN pc : pc[t] \in {"shared_get", "auth_get"} /\ pc'[t] # pc[t]

\* In this step a read is served from the cache.
HitReturns == Len(log') = Len(log) + 1 /\ ~log'[Len(log')].fetched

\* In this step a query returns.
QueryReturns ==
    \E t \in DOMAIN pc : pc[t] # "idle" /\ pc'[t] = "idle" /\ frame[t].op \in Ops

\* The query that returns in this step repeats the one that returned before
\* it, and every read of the two is within one TTL of the fetch of the
\* envelope the first of these reads returned.
RepeatsInWindow ==
    LET last  == Len(log')
        first == last - Len(done'.outs) - Len(done.outs) + 1
    IN  /\ QueryReturns
        /\ done.op # "" /\ done.outs # <<>> /\ done'.outs # <<>>
        /\ done'.op = done.op /\ done'.svc = done.svc /\ done'.name = done.name
        /\ first >= 1
        /\ log'[last].at < log'[first].out.fetchTime + STATE_CACHING_SECONDS

\* C23: the cache changes only when a fetch returns; a read served from the
\* cache returns the stored value and leaves the cache as it is; and a
\* query repeated within the window returns what it returned before:
\* Persons with the same fields and properties, the same coordinates.
C23_DecodeLeavesCache ==
    [][/\ STATE_CACHE' # STATE_CACHE => FetchReturns
       /\ HitReturns
            => /\ STATE_CACHE' = STATE_CACHE
               /\ \E n \in 1..Len(STATE_CACHE) :
                     /\ STATE_CACHE[n].key = log'[Len(log')].svc
                     /\ STATE_CACHE[n].value = log'[Len(log')].out
       /\ RepeatsInWindow
            => /\ done'.outs = done.outs
               /\ done'.exc = done.exc
               /\ done'.people = done.people
               /\ done'.view = done.view
               /\ done'.coords = done.coords]_vars

\* Four reads of one Service, the first a fetch of the account's envelope
\* and the others served from the cache, the last one later in the window:
\* get_all_people returned the two Persons again.
C23_Witness ==
    /\ Idle
    /\ done.op = "get_all_people"
    /\ Len(done.people) = 2
    /\ Len(log) = 4
    /\ SameService(1, 4)
    /\ log[1].fetched
    /\ \A k \in 2..4 : ~log[k].fetched /\ log[k].out = log[1].out
    /\ log[2].at = log[1].at
    /\ log[4].at > log[1].at
    /\ Len(STATE_CACHE) = 1 /\ STATE_CACHE[1].value = log[1].out

\* get_shared_people returned a Person for every entry: the k-th Person is
\* that of the k-th entry.
AllDecoded ==
    /\ SharedDecoded
    /\ DoneShared.t = "list"
    /\ done.exc = "none"
    /\ Len(done.people) = Len(DoneShared.v)

\* C24 as stated: Person.id is the identifier at 6, 0 of the entry unless
\* that is null, and the full name when it is null.
C24_IdOrFullName ==
    AllDecoded
    => \A k \in 1..Len(done.view) :
           LET stored == At(DoneShared.v[k], <<6, 0>>).val
           IN  done.view[k].id = IF stored = Null THEN done.view[k].full_name
                                 ELSE stored

\* The values Python takes for false.
Falsy == {Null, Num(0), Bool(FALSE), Str(<<>>), List(<<>>), Dict(<<>>)}

\* C24 amended: Person.id is the identifier at 6, 0 of the entry unless that
\* is null or another false value (0, false, an empty str, array or
\* object), and the full name when it is one of these.
C24_IdUnlessFalsy ==
    AllDecoded
    => \A k \in 1..Len(done.view) :
           LET stored == At(DoneShared.v[k], <<6, 0>>).val
           IN  done.view[k].id = IF stored \in Falsy THEN done.view[k].full_name
                                 ELSE stored

\* Two Persons returned: the first of an entry whose identifier is the empty
\* str, with its full name as id, the second with its identifier as id.
C24_Witness ==
    /\ AllDecoded
    /\ Len(done.view) = 2
    /\ At(DoneShared.v[1], <<6, 0>>).val = Str(<<>>)
    /\ done.view[1].id = NameBo
    /\ At(DoneShared.v[2], <<6, 0>>).val = Num(7)
    /\ done.view[2].id = Num(7)

\* C25: get_all_people, and so every lookup, decodes the shared people and
\* the account's person from one envelope of one fetch, also when the entry
\* expires between its two reads.
C25_OneEnvelopePerCall ==
    (done.op \in Ops \ {"get_shared_people", "get_authenticated_person"}
       /\ Len(done.outs) = 2)
    => done.outs[1] = done.outs[2]

\* C26: a query on a Service never decodes an envelope that was fetched
\* with the session of another Service: a read served from the cache
\* returns what the last fetch of its own Service returned, every entry of
\* the cache holds what a fetch of the Service of its key returned, and
\* every envelope a query decoded was fetched by its own Service.
C26_NoCrossInstanceData ==
    /\ \A j \in Reads :
         ~log[j].fetched
         => \E i \in Reads : LastFetchBefore(i, j) /\ log[j].out = log[i].out
    /\ \A n \in 1..Len(STATE_CACHE) :
         \E k \in Reads : /\ log[k].fetched
                          /\ log[k].svc = STATE_CACHE[n].key
                          /\ log[k].out = STATE_CACHE[n].value
    /\ \A n \in 1..Len(done.outs) :
         \E k \in Reads : /\ log[k].fetched
                          /\ log[k].svc = done.svc
                          /\ log[k].out = done.outs[n]

\* B fetched, then A fetched something else, and a later query on A was
\* served from the cache with what A fetched.
C26_Witness ==
    \E i, j, k \in Reads :
        /\ i < j /\ j < k
        /\ log[i].svc = "B" /\ log[i].fetched
        /\ log[j].svc = "A" /\ log[j].fetched
        /\ log[k].svc = "A" /\ ~log[k].fetched
        /\ log[k].out = log[j].out
        /\ log[i].out # log[j].out
        /\ log[i].out.env = EnvelopeA
        /\ done.svc = "A" /\ done.outs = <<log[k].out>>

\* The requests that submit the credentials, and the one that opens the login.
CredentialUrls == {LookupUrl, PasswordUrl}

LoginUrls == {ServiceLoginUrl, LookupUrl, PasswordUrl}

\* The constructor of Service s was given a cookies_file, the file loaded,
\* and _validate_cookie sent its probe of the login page.
ProbedWithCookies(s) ==
    /\ session[s].cookies_file
    /\ RequestsOf(s) # <<>>
    /\ RequestsOf(s)[1].url = LoginUrl

\* C27: once a supplied cookies file has loaded, no step submits the email
\* or the password and no step writes the cookies file; the constructor
\* waits for the probe, raises InvalidCookies when the probe shows the
\* sign-in page, and returns the Service on any other page.
C27_CookiePathNoLoginNoWrite ==
    [][\A s \in Services :
          ProbedWithCookies(s)'
          => LET mine  == RequestsOf(s)'
                 probe == mine[1].reply
             IN  /\ cookies_file' = cookies_file
                 /\ \A i \in 1..Len(mine) : mine[i].url \notin LoginUrls
                 /\ probe = NoReply <=> session'[s].state = "init"
                 /\ (probe # NoReply /\ SignInTitle \in probe.has)
                      => (session'[s].state = "failed"
                          /\ session'[s].exc = "InvalidCookies")
                 /\ (probe # NoReply /\ SignInTitle \notin probe.has)
                      => (session'[s].state = "ready"
                          /\ session'[s].exc = "none")]_vars

\* A Service constructed from its cookies file, whose probe set a cookie,
\* and queried since: the file still holds the jar that was loaded.
C27_Witness ==
    /\ ProbedWithCookies("A")
    /\ session["A"].state = "ready"
    /\ RequestsOf("A")[1].reply.cookies = {Cookie("SID", 2)}
    /\ session["A"].jar = {Cookie("SID", 2)}
    /\ cookies_file = PickledJar({Cookie("SID", 1)})
    /\ Len(RequestsOf("A")) >= 2
    /\ done.op # ""

\* A constructor whose cookies loaded and whose probe showed the sign-in
\* page: InvalidCookies, one request, the file as it was.
C27_WitnessInvalid ==
    /\ ProbedWithCookies("A")
    /\ session["A"].state = "failed"
    /\ session["A"].exc = "InvalidCookies"
    /\ Len(net) = 1
    /\ cookies_file.kind = "pickle"

\* The requests of the login flow of Service s, and the order of the flow.
LoginRequests(s) == SelectSeq(RequestsOf(s), LAMBDA r : r.url \in LoginUrls)

LoginOrder == <<ServiceLoginUrl, LookupUrl, PasswordUrl>>

\* The password step returned: its response is there and rejects nothing.
PasswordAccepted(page) ==
    /\ page # NoReply
    /\ INVALID_PASSWORD_TOKEN \notin page.has
    /\ TOO_MANY_ATTEMPTS \notin page.has

\* C28: the login flow sends ServiceLogin, the email and the password in
\* this order, each once; the email is posted only after the first page
\* gave its form, the password only after the email step returned without
\* InvalidUser; the cookies file is written only by a constructor that was
\* given one, after the password step returned without a rejection, and it
\* then holds the Session's jar; a constructor that raised sends no request
\* and writes no file, in the step that raises and ever after.
C28_LoginOrder ==
    [][/\ \A s \in Services :
            LET login == LoginRequests(s)'
            IN  /\ Len(login) <= Len(LoginOrder)
                /\ \A i \in 1..Len(login) : login[i].url = LoginOrder[i]
                /\ Len(login) >= 2
                     => (login[1].reply # NoReply /\ login[1].reply.form)
                /\ Len(login) >= 3
                     => /\ login[2].reply # NoReply
                        /\ INVALID_EMAIL_MESSAGE \notin login[2].reply.has
                /\ session'[s].state = "failed" => cookies_file' = cookies_file
                /\ session[s].state = "failed"
                     => (RequestsOf(s)' = RequestsOf(s) /\ session'[s] = session[s])
       /\ cookies_file' # cookies_file
            => \E s \in Services :
                   LET login == LoginRequests(s)'
                   IN  /\ session'[s].cookies_file
                       /\ Len(login) = 3
                       /\ PasswordAccepted(login[3].reply)
                       /\ session[s].state = "init"
                       /\ session'[s].state = "ready"
                       /\ cookies_file' = PickledJar(session'[s].jar)]_vars

\* A Service constructed by the login flow, all three requests answered,
\* and the cookie the password step set exported to the cookies file.
C28_Witness ==
    /\ session["A"].state = "ready"
    /\ session["A"].cookies_file
    /\ Len(LoginRequests("A")) = 3
    /\ PasswordAccepted(LoginRequests("A")[3].reply)
    /\ session["A"].jar = {Cookie("SID", 2)}
    /\ cookies_file = PickledJar({Cookie("SID", 2)})

\* A login that stopped at the email step: InvalidUser, no password posted,
\* no file written.
C28_WitnessInvalidUser ==
    /\ session["A"].state = "failed"
    /\ session["A"].exc = "InvalidUser"
    /\ session["A"].cookies_file
    /\ Len(LoginRequests("A")) = 2
    /\ cookies_file = AbsentFile

\* The GETs of the read endpoint that Service s sent.
ReadRequests(s) == SelectSeq(RequestsOf(s), LAMBDA r : r.url = ReadUrl)

\* logout() of Service s has returned, and s sent no GET of the read
\* endpoint since.
NoFetchSinceLogout(s) ==
    \E i \in 1..Len(net) :
        /\ net[i].svc = s /\ net[i].url = LogoutUrl /\ net[i].reply # NoReply
        /\ \A k \in (i + 1)..Len(net) : ~(net[k].svc = s /\ net[k].url = ReadUrl)

\* The cache holds an entry of Service s that has not expired.
LiveEntry(s) ==
    \E n \in 1..Len(STATE_CACHE) :
        STATE_CACHE[n].key = s /\ now < STATE_CACHE[n].expire

\* C29: neither step of logout() changes the cache or reads from it; and
\* while the entry stored before the logout is within its TTL, a read of
\* the Service sends no GET: it returns the stored envelope, which stays
\* in the cache.
C29_LogoutLeavesCache ==
    [][/\ (\E t \in DOMAIN pc : pc[t] = "logout" \/ pc'[t] = "logout")
            => (STATE_CACHE' = STATE_CACHE /\ log' = log)
       /\ \A s \in Services :
            (NoFetchSinceLogout(s) /\ LiveEntry(s))
            => /\ ReadRequests(s)' = ReadRequests(s)
               /\ STATE_CACHE' = STATE_CACHE
               /\ (Len(log') = Len(log) + 1 /\ log'[Len(log')].svc = s)
                    => /\ ~log'[Len(log')].fetched
                       /\ \E n \in 1..Len(STATE_CACHE) :
                             /\ STATE_CACHE[n].key = s
                             /\ STATE_CACHE[n].value = log'[Len(log')].out]_vars

\* The envelope was fetched, logout() returned True, and get_all_people,
\* called later within the TTL, returned the two Persons of that envelope
\* without a GET.
C29_Witness ==
    /\ Idle
    /\ Len(net) = 2
    /\ net[1].url = ReadUrl /\ net[2].url = LogoutUrl
    /\ net[2].reply = LogoutPage(TRUE, {Cookie("SID", 0)})
    /\ done.op = "get_all_people"
    /\ Len(done.people) = 2
    /\ Len(log) >= 3
    /\ log[1].fetched
    /\ \A k \in 2..Len(log) : ~log[k].fetched /\ log[k].out = log[1].out
    /\ log[Len(log)].at > log[1].out.fetchTime

\* C30: the Person get_authenticated_person returns has the account's email
\* as id, full name and nickname, no picture and no battery level, is not
\* charging, and has the latitude, longitude, timestamp, accuracy, address
\* and country code of the block at 9, 1 of the envelope, read where a
\* shared entry's block at 1 is read.
C30_AuthenticatedPerson ==
    (done.op = "get_authenticated_person" /\ done.exc = "none"
       /\ done.people # <<>>)
    => LET person == done.view[1]
           email  == Email(done.svc)
           block  == At(done.outs[1].env, <<9, 1>>)
           at(path) == At(block.val, path)
       IN  /\ Len(done.people) = 1
           /\ person.id = email
           /\ person.full_name = email
           /\ person.nickname = email
           /\ person.picture_url = Null
           /\ person.battery_level = Null
           /\ person.charging = Bool(FALSE)
           /\ block.exc = "none"
           /\ \A path \in {<<1, 2>>, <<1, 1>>, <<2>>, <<3>>, <<4>>, <<6>>} :
                at(path).exc = "none"
           /\ person.latitude = at(<<1, 2>>).val
           /\ person.longitude = at(<<1, 1>>).val
           /\ person.timestamp = at(<<2>>).val
           /\ person.accuracy = at(<<3>>).val
           /\ person.address = at(<<4>>).val
           /\ person.country_code = at(<<6>>).val

\* get_authenticated_person returned the Person of the account 'al' at
\* latitude 48, longitude 2.
C30_Witness ==
    /\ done.op = "get_authenticated_person"
    /\ Len(done.view) = 1
    /\ done.view[1].id = NameLowerAl
    /\ done.view[1].latitude = Num(48)
    /\ done.view[1].longitude = Num(2)
    /\ done.view[1].charging = Bool(FALSE)
    /\ done.people[1].id = Null
====
